---- MODULE Spec2Model ----
(***************************************************************************)
(* A model of the in-memory table utilities of the repository: the data    *)
(* cleaning operators, the SQL-like / DataFrame-style / transformation     *)
(* operators, the JSON file adapter and the mini ETL pipeline.             *)
(*                                                                         *)
(* Python objects live on a heap: a table is a list of references to       *)
(* dicts, so that a function that returns "the same records" and one that  *)
(* returns copies can be told apart, and so can one that writes into its   *)
(* input.                                                                  *)
(***************************************************************************)
EXTENDS Integers, Sequences, FiniteSets, TLC

VARIABLES
    heap,   \* reference -> object: a dict (key -> value) or a list (a sequence)
    L,      \* reference of the list passed as `records` / `left` / `values`
    R,      \* reference of the list passed as `right` (0 when the call takes none)
    pc,     \* position of the running call
    op,     \* the call made: its name and scalar arguments
    out,    \* what the call gave back: a returned value or a raised exception
    etl,    \* the ETL run: caller, locals of run_etl, the files
    doc,    \* the JSON adapter: the structure handed to write_json, the file
    logger  \* the root logger: its level, its handlers, the records it emitted

vars == <<heap, L, R, pc, op, out, etl, doc, logger>>

----------------------------------------------------------------------------
(* Bounds of the model *)

MaxLen == 3      \* longest table passed as `records`
MaxJoin == 3     \* records of `left` and `right` together, in a join
MaxRows == 2     \* data rows of the input CSV file
MaxNodes == 3    \* values and containers in a structure given to write_json
MaxChecked == 2  \* longest table given to a validator or cached

----------------------------------------------------------------------------
(* Python values: None and int, tagged so that None = 0 is FALSE *)

PyNone == [t |-> "none"]
PyInt(n) == [t |-> "int", v |-> n]
IsInt(x) == x.t = "int"

Nums == {1, 2}
Vals == {PyNone} \cup {PyInt(n) : n \in Nums}
Fields == {"id", "amount"}

\* every dict over Fields: a key may be absent, hold None, or hold a number
Recs == UNION {[ks -> Vals] : ks \in SUBSET Fields}

\* dict.get(key) and dict.get(key, default)
Get(rec, key) == IF key \in DOMAIN rec THEN rec[key] ELSE PyNone
GetOr(rec, key, default) == IF key \in DOMAIN rec THEN rec[key] ELSE default

\* dict[key] = value, and {**a, **b} / a.update(b): b's entries win
SetItem(rec, key, value) ==
    [k \in DOMAIN rec \cup {key} |-> IF k = key THEN value ELSE rec[k]]
Merge_left_wins(a, b) ==
    [k \in DOMAIN a \cup DOMAIN b |-> IF k \in DOMAIN a THEN a[k] ELSE b[k]]

Merge(a, b) ==
    [k \in DOMAIN a \cup DOMAIN b |-> IF k \in DOMAIN b THEN b[k] ELSE a[k]]
EmptyDict == [k \in {} |-> PyNone]

\* the outcome of a call: a value returned, or an exception raised; with the heap it left
Return(v, h) == [kind |-> "return", val |-> v, heap |-> h]
Raise(e, h) == [kind |-> "raise", exc |-> e, heap |-> h]
Returned(o) == o.kind = "return"

\* a fresh reference, and the heap with a new object stored under it
NewRef(h) == Cardinality(DOMAIN h) + 1
Alloc(h, obj) ==
    [r \in DOMAIN h \cup {NewRef(h)} |-> IF r \in DOMAIN h THEN h[r] ELSE obj]
Store(h, ref, obj) == [h EXCEPT ![ref] = obj]

\* `return result` for a list (or dict) built by the call: a new object
ReturnNew(obj, h) == Return(NewRef(h), Alloc(h, obj))

----------------------------------------------------------------------------
(* The logging module: the root logger *)

LevelNo == [DEBUG |-> 10, INFO |-> 20, WARNING |-> 30, ERROR |-> 40]

\* the root logger of a fresh process: level WARNING, no handler
LoggerAtStart == [level |-> "WARNING", handlers |-> FALSE, records |-> <<>>]

BasicConfig_sets_level_again(lg, level) ==
    [lg EXCEPT !.handlers = TRUE, !.level = level]

\* logging.basicConfig(level=...): does nothing when the root logger has a
\* handler already, else installs one and sets the level
BasicConfig(lg, level) ==
    IF lg.handlers THEN lg
    ELSE [lg EXCEPT !.handlers = TRUE, !.level = level]

\* logging.getLogger().setLevel(level)
SetLevel(lg, level) == [lg EXCEPT !.level = level]

\* logging.info(...) / logging.error(...): a root logger without a handler is
\* given one first; the record is emitted when its level is enabled
Log(lg, level, fields) ==
    LET ready == IF lg.handlers THEN lg ELSE [lg EXCEPT !.handlers = TRUE]
        record == [k \in DOMAIN fields \cup {"level"} |->
                      IF k = "level" THEN level ELSE fields[k]]
    IN  IF LevelNo[level] >= LevelNo[ready.level]
        THEN [ready EXCEPT !.records = Append(@, record)]
        ELSE ready

LogInfo(lg, fields) == Log(lg, "INFO", fields)
LogError(lg, fields) == Log(lg, "ERROR", fields)

\* the root logger once the modules are imported: basicConfig(level=logging.INFO)
LoggerAfterImport == BasicConfig(LoggerAtStart, "INFO")

----------------------------------------------------------------------------
(* Data cleaning *)

KeepsRecord_present(rec, field) == field \in DOMAIN rec

\* if record.get(field) is not None
KeepsRecord(rec, field) == Get(rec, field) # PyNone

SetDefault_overwrite(rec, key, value) == SetItem(rec, key, value)

\* record.setdefault(key, default_value)
SetDefault(rec, key, value) ==
    IF key \in DOMAIN rec THEN rec ELSE SetItem(rec, key, value)

\* for key, default_value in defaults.items(), `items` being the keys in the
\* order the dict holds them
RECURSIVE fill_missing_loop(_, _, _, _)
fill_missing_loop(rec, defaults, items, i) ==
    IF i > Len(items) THEN rec
    ELSE fill_missing_loop(SetDefault(rec, items[i], defaults[items[i]]),
                           defaults, items, i + 1)

\* the record is changed in place and is the object returned
fill_missing_fields(h, record, defaults, items) ==
    Return(record, Store(h, record, fill_missing_loop(h[record], h[defaults], items, 1)))

RECURSIVE remove_null_loop(_, _, _, _, _)
remove_null_loop(h, records, field, i, cleaned_records) ==
    IF i > Len(h[records]) THEN cleaned_records
    ELSE remove_null_loop(h, records, field, i + 1,
            IF KeepsRecord(h[h[records][i]], field)
            THEN Append(cleaned_records, h[records][i])
            ELSE cleaned_records)

remove_null_records(h, records, field) ==
    ReturnNew(remove_null_loop(h, records, field, 1, <<>>), h)

SeenAdd_forgotten(seen_keys, key_value) == seen_keys

\* seen_keys.add(key_value)
SeenAdd(seen_keys, key_value) == seen_keys \cup {key_value}

RECURSIVE remove_duplicates_loop(_, _, _, _, _, _)
remove_duplicates_loop(h, records, unique_key, i, seen_keys, unique_records) ==
    IF i > Len(h[records]) THEN unique_records
    ELSE LET key_value == Get(h[h[records][i]], unique_key)
         IN  IF key_value \notin seen_keys
             THEN remove_duplicates_loop(h, records, unique_key, i + 1,
                      SeenAdd(seen_keys, key_value),
                      Append(unique_records, h[records][i]))
             ELSE remove_duplicates_loop(h, records, unique_key, i + 1,
                      seen_keys, unique_records)

remove_duplicates(h, records, unique_key) ==
    ReturnNew(remove_duplicates_loop(h, records, unique_key, 1, {}, <<>>), h)

----------------------------------------------------------------------------
(* Python built-ins the operators rest on *)

Abs(x) == IF x < 0 THEN 0 - x ELSE x

Reverse(seq) == [i \in 1..Len(seq) |-> seq[Len(seq) + 1 - i]]

\* list.sort compares every element of a list of two or more at least once,
\* and a < b raises TypeError unless both are numbers
SortRaises(keys) == Len(keys) >= 2 /\ \E i \in 1..Len(keys) : ~IsInt(keys[i])

\* binary insertion: the new pair goes after the pairs whose key is not greater
InsertPair(acc, pair) ==
    LET c == Cardinality({i \in 1..Len(acc) : acc[i].key.v <= pair.key.v})
    IN  SubSeq(acc, 1, c) \o <<pair>> \o SubSeq(acc, c + 1, Len(acc))

RECURSIVE SortPairs(_, _, _)
SortPairs(pairs, i, acc) ==
    IF i > Len(pairs) THEN acc
    ELSE SortPairs(pairs, i + 1, InsertPair(acc, pairs[i]))

PySorted_reversed_after(items, keys, reverse) ==
    LET pairs == [i \in 1..Len(items) |-> [key |-> keys[i], item |-> items[i]]]
        sorted == SortPairs(pairs, 1, <<>>)
        final == IF reverse THEN Reverse(sorted) ELSE sorted
    IN  [i \in 1..Len(final) |-> final[i].item]

\* sorted(items, key=..., reverse=...) on keys that can be ordered: the list is
\* reversed, sorted stably in ascending order, and reversed again
PySorted(items, keys, reverse) ==
    LET pairs == [i \in 1..Len(items) |-> [key |-> keys[i], item |-> items[i]]]
        start == IF reverse THEN Reverse(pairs) ELSE pairs
        sorted == SortPairs(start, 1, <<>>)
        final == IF reverse THEN Reverse(sorted) ELSE sorted
    IN  [i \in 1..Len(final) |-> final[i].item]

DictAdd_overwrite(d, key, value) == SetItem(d, key, value)

\* d[key] += value on a defaultdict(int)
DictAdd(d, key, value) ==
    SetItem(d, key, PyInt((IF key \in DOMAIN d THEN d[key].v ELSE 0) + value.v))

\* the result of a loop that may raise
Ok(v) == [ok |-> TRUE, val |-> v]
Err(e) == [ok |-> FALSE, exc |-> e]
Outcome(r, h) == IF r.ok THEN ReturnNew(r.val, h) ELSE Raise(r.exc, h)

\* the orders in which a set can be listed
Orderings(S) ==
    {s \in [1..Cardinality(S) -> S] : \A i, j \in 1..Cardinality(S) : i # j => s[i] # s[j]}

----------------------------------------------------------------------------
(* SQL-like operators *)

RECURSIVE select_one(_, _, _, _)
select_one(rec, columns, c, selected) ==
    IF c > Len(columns) THEN selected
    ELSE select_one(rec, columns, c + 1,
                    SetItem(selected, columns[c], Get(rec, columns[c])))

RECURSIVE select_loop(_, _, _, _, _)
select_loop(h, records, columns, i, result) ==
    IF i > Len(h[records]) THEN ReturnNew(result, h)
    ELSE LET selected == select_one(h[h[records][i]], columns, 1, EmptyDict)
         IN  select_loop(Alloc(h, selected), records, columns, i + 1,
                         Append(result, NewRef(h)))

select_columns(h, records, columns) == select_loop(h, records, columns, 1, <<>>)

where_filter(h, records, field, value) ==
    ReturnNew(SelectSeq(h[records], LAMBDA r : Get(h[r], field) = value), h)

where_greater_than(h, records, field, threshold) ==
    IF \E i \in 1..Len(h[records]) : ~IsInt(GetOr(h[h[records][i]], field, PyInt(0)))
    THEN Raise("TypeError", h)
    ELSE ReturnNew(SelectSeq(h[records],
                LAMBDA r : GetOr(h[r], field, PyInt(0)).v > threshold), h)

RECURSIVE group_by_count_loop(_, _, _, _, _)
group_by_count_loop(h, records, group_field, i, counts) ==
    IF i > Len(h[records]) THEN Ok(counts)
    ELSE LET record == h[h[records][i]]
         IN  IF group_field \notin DOMAIN record THEN Err("KeyError")
             ELSE group_by_count_loop(h, records, group_field, i + 1,
                      DictAdd(counts, record[group_field], PyInt(1)))

group_by_count(h, records, group_field) ==
    Outcome(group_by_count_loop(h, records, group_field, 1, EmptyDict), h)

RECURSIVE group_by_sum_loop(_, _, _, _, _, _)
group_by_sum_loop(h, records, group_field, sum_field, i, sums) ==
    IF i > Len(h[records]) THEN Ok(sums)
    ELSE LET record == h[h[records][i]]
             value == GetOr(record, sum_field, PyInt(0))
         IN  IF group_field \notin DOMAIN record THEN Err("KeyError")
             ELSE IF ~IsInt(value) THEN Err("TypeError")
             ELSE group_by_sum_loop(h, records, group_field, sum_field, i + 1,
                      DictAdd(sums, record[group_field], value))

group_by_sum(h, records, group_field, sum_field) ==
    Outcome(group_by_sum_loop(h, records, group_field, sum_field, 1, EmptyDict), h)

order_by(h, records, field, ascending) ==
    LET keys == [i \in 1..Len(h[records]) |-> Get(h[h[records][i]], field)]
    IN  IF SortRaises(keys) THEN Raise("TypeError", h)
        ELSE ReturnNew(PySorted(h[records], keys, ~ascending), h)

having_filter(h, grouped_data, threshold) ==
    LET d == h[grouped_data]
    IN  IF \E k \in DOMAIN d : ~IsInt(d[k]) THEN Raise("TypeError", h)
        ELSE ReturnNew([k \in {x \in DOMAIN d : d[x].v > threshold} |-> d[k]], h)

\* list({...}): the distinct values, in whichever order the set iterates
distinct_values(h, records, field, order) == ReturnNew(order, h)
distinct_set(h, records, field) ==
    {Get(h[h[records][i]], field) : i \in 1..Len(h[records])}

\* right_lookup = {r[join_key]: r for r in right}: the last record of a key wins
RECURSIVE right_lookup_loop(_, _, _, _, _)
right_lookup_loop(h, right, join_key, i, lookup) ==
    IF i > Len(h[right]) THEN Ok(lookup)
    ELSE LET r == h[right][i]
         IN  IF join_key \notin DOMAIN h[r] THEN Err("KeyError")
             ELSE right_lookup_loop(h, right, join_key, i + 1,
                                    SetItem(lookup, h[r][join_key], r))

right_lookup(h, right, join_key) == right_lookup_loop(h, right, join_key, 1, EmptyDict)

RECURSIVE inner_join_loop(_, _, _, _, _, _)
inner_join_loop(h, left, lookup, join_key, i, result) ==
    IF i > Len(h[left]) THEN ReturnNew(result, h)
    ELSE LET record == h[h[left][i]]
             key_value == Get(record, join_key)
         IN  IF key_value \in DOMAIN lookup
             THEN inner_join_loop(Alloc(h, Merge(record, h[lookup[key_value]])),
                                  left, lookup, join_key, i + 1, Append(result, NewRef(h)))
             ELSE inner_join_loop(h, left, lookup, join_key, i + 1, result)

inner_join(h, left, right, join_key) ==
    LET lookup == right_lookup(h, right, join_key)
    IN  IF ~lookup.ok THEN Raise(lookup.exc, h)
        ELSE inner_join_loop(h, left, lookup.val, join_key, 1, <<>>)

RECURSIVE left_join_loop(_, _, _, _, _, _)
left_join_loop(h, left, lookup, join_key, i, result) ==
    IF i > Len(h[left]) THEN ReturnNew(result, h)
    ELSE LET record == h[h[left][i]]
             key_value == Get(record, join_key)
             found == IF key_value \in DOMAIN lookup THEN h[lookup[key_value]]
                      ELSE EmptyDict
         IN  left_join_loop(Alloc(h, Merge(record, found)),
                            left, lookup, join_key, i + 1, Append(result, NewRef(h)))

left_join_unmatched_dropped(h, left, right, join_key) ==
    inner_join(h, left, right, join_key)

left_join(h, left, right, join_key) ==
    LET lookup == right_lookup(h, right, join_key)
    IN  IF ~lookup.ok THEN Raise(lookup.exc, h)
        ELSE left_join_loop(h, left, lookup.val, join_key, 1, <<>>)

----------------------------------------------------------------------------
(* Transformations and aggregations *)

aggregate_sum_by_key(h, records, group_key, value_key) ==
    Outcome(group_by_sum_loop(h, records, group_key, value_key, 1, EmptyDict), h)

RECURSIVE pivot_loop(_, _, _, _, _, _, _)
pivot_loop(h, records, row_key, column_key, value_key, i, pivot) ==
    IF i > Len(h[records]) THEN Ok(pivot)
    ELSE LET record == h[h[records][i]]
         IN  IF {value_key, row_key, column_key} \ DOMAIN record # {}
             THEN Err("KeyError")
             ELSE LET row == IF record[row_key] \in DOMAIN pivot
                             THEN pivot[record[row_key]] ELSE EmptyDict
                  IN  pivot_loop(h, records, row_key, column_key, value_key, i + 1,
                          SetItem(pivot, record[row_key],
                                  SetItem(row, record[column_key], record[value_key])))

pivot_data(h, records, row_key, column_key, value_key) ==
    Outcome(pivot_loop(h, records, row_key, column_key, value_key, 1, EmptyDict), h)

RECURSIVE inner_join_tr_loop(_, _, _, _, _, _)
inner_join_tr_loop(h, left, lookup, key, i, joined) ==
    IF i > Len(h[left]) THEN ReturnNew(joined, h)
    ELSE LET l == h[h[left][i]]
         IN  IF key \notin DOMAIN l THEN Raise("KeyError", h)
             ELSE IF l[key] \in DOMAIN lookup
             THEN inner_join_tr_loop(Alloc(h, Merge(l, h[lookup[l[key]]])),
                                     left, lookup, key, i + 1, Append(joined, NewRef(h)))
             ELSE inner_join_tr_loop(h, left, lookup, key, i + 1, joined)

inner_join_tr(h, left, right, key) ==
    LET lookup == right_lookup(h, right, key)
    IN  IF ~lookup.ok THEN Raise(lookup.exc, h)
        ELSE inner_join_tr_loop(h, left, lookup.val, key, 1, <<>>)

filter_records_by_threshold(h, records, field, threshold) ==
    IF \E i \in 1..Len(h[records]) : ~IsInt(GetOr(h[h[records][i]], field, PyInt(0)))
    THEN Raise("TypeError", h)
    ELSE ReturnNew(SelectSeq(h[records],
                LAMBDA r : GetOr(h[r], field, PyInt(0)).v > threshold), h)

Accumulate_resets(total, value) == value.v

\* total += value
Accumulate(total, value) == total + value.v

RECURSIVE running_total_loop(_, _, _, _, _)
running_total_loop(h, values, i, total, result) ==
    IF i > Len(h[values]) THEN result
    ELSE running_total_loop(h, values, i + 1, Accumulate(total, h[values][i]),
                            Append(result, PyInt(Accumulate(total, h[values][i]))))

running_total(h, values) == ReturnNew(running_total_loop(h, values, 1, 0, <<>>), h)

RECURSIVE rank_loop(_, _, _)
rank_loop(h, sorted_records, index) ==
    IF index > Len(sorted_records) THEN h
    ELSE rank_loop(Store(h, sorted_records[index],
                         SetItem(h[sorted_records[index]], "rank", PyInt(index))),
                   sorted_records, index + 1)

rank_records(h, records, field) ==
    IF \E i \in 1..Len(h[records]) : field \notin DOMAIN h[h[records][i]]
    THEN Raise("KeyError", h)
    ELSE LET keys == [i \in 1..Len(h[records]) |-> h[h[records][i]][field]]
         IN  IF SortRaises(keys) THEN Raise("TypeError", h)
             ELSE LET sorted_records == PySorted(h[records], keys, TRUE)
                  IN  ReturnNew(sorted_records, rank_loop(h, sorted_records, 1))

FloorDiv_truncates(a, b) ==
    IF (a >= 0) = (b > 0) THEN Abs(a) \div Abs(b) ELSE 0 - (Abs(a) \div Abs(b))

\* a // b: the floor of the quotient
FloorDiv(a, b) == IF b > 0 THEN a \div b ELSE (0 - a) \div (0 - b)

RECURSIVE bucketize_loop(_, _, _, _, _)
bucketize_loop(h, values, bucket_size, i, buckets) ==
    IF i > Len(h[values]) THEN buckets
    ELSE LET value == h[values][i]
             bucket_key == PyInt(FloorDiv(value.v, bucket_size) * bucket_size)
             bucket == IF bucket_key \in DOMAIN buckets THEN buckets[bucket_key] ELSE <<>>
         IN  bucketize_loop(h, values, bucket_size, i + 1,
                            SetItem(buckets, bucket_key, Append(bucket, value)))

bucketize_values(h, values, bucket_size) ==
    IF Len(h[values]) > 0 /\ bucket_size = 0 THEN Raise("ZeroDivisionError", h)
    ELSE ReturnNew(bucketize_loop(h, values, bucket_size, 1, EmptyDict), h)

----------------------------------------------------------------------------
(* DataFrame-style operators *)

df_filter_drops_missing(h, records, field, threshold) ==
    IF \E i \in 1..Len(h[records]) : ~IsInt(GetOr(h[h[records][i]], field, PyInt(0)))
    THEN Raise("TypeError", h)
    ELSE ReturnNew(SelectSeq(h[records],
                LAMBDA r : field \in DOMAIN h[r] /\ h[r][field].v > threshold), h)

\* [record for record in records if record.get(field, 0) > threshold]
df_filter(h, records, field, threshold) ==
    IF \E i \in 1..Len(h[records]) : ~IsInt(GetOr(h[h[records][i]], field, PyInt(0)))
    THEN Raise("TypeError", h)
    ELSE ReturnNew(SelectSeq(h[records],
                LAMBDA r : GetOr(h[r], field, PyInt(0)).v > threshold), h)

df_groupby_sum(h, records, group_key, agg_key) ==
    Outcome(group_by_sum_loop(h, records, group_key, agg_key, 1, EmptyDict), h)

df_order_by(h, records, field, ascending) ==
    LET keys == [i \in 1..Len(h[records]) |-> Get(h[h[records][i]], field)]
    IN  IF SortRaises(keys) THEN Raise("TypeError", h)
        ELSE ReturnNew(PySorted(h[records], keys, ~ascending), h)

df_join(h, left, right, join_key) ==
    LET lookup == right_lookup(h, right, join_key)
    IN  IF ~lookup.ok THEN Raise(lookup.exc, h)
        ELSE inner_join_loop(h, left, lookup.val, join_key, 1, <<>>)

----------------------------------------------------------------------------
(* The calls on one table *)

NoEtl == [pc |-> "off"]
NoDoc == [pc |-> "off"]

Thresholds == {-1, 0, 1}
ColumnLists == {<<>>, <<"id">>, <<"amount", "id">>, <<"id", "name">>}

\* n dicts at references 1..n and the list holding them at reference n + 1
TableOf(recs) ==
    [r \in 1..(Len(recs) + 1) |->
        IF r <= Len(recs) THEN recs[r] ELSE [i \in 1..Len(recs) |-> i]]

Init ==
    /\ \E n \in 0..MaxLen : \E recs \in [1..n -> Recs] :
        /\ heap = TableOf(recs)
        /\ L = n + 1
    /\ R = 0
    /\ pc = "start"
    /\ op = [name |-> "none"]
    /\ out = [kind |-> "none"]
    /\ etl = NoEtl
    /\ doc = NoDoc
    /\ logger = LoggerAfterImport

\* a call runs to its end in one step: its outcome and the heap it leaves
Finish(call, o) ==
    /\ pc = "start"
    /\ pc' = "done"
    /\ op' = call
    /\ out' = [x \in DOMAIN o \ {"heap"} |-> o[x]]
    /\ heap' = o.heap
    /\ UNCHANGED <<L, R, etl, doc, logger>>

CallRemoveNullRecords ==
    \E f \in Fields :
        Finish([name |-> "remove_null_records", field |-> f],
               remove_null_records(heap, L, f))

CallRemoveDuplicates ==
    \E k \in Fields :
        Finish([name |-> "remove_duplicates", field |-> k],
               remove_duplicates(heap, L, k))

CallSelectColumns ==
    \E cols \in ColumnLists :
        Finish([name |-> "select_columns", columns |-> cols],
               select_columns(heap, L, cols))

CallWhereFilter ==
    \E f \in Fields, v \in Vals :
        Finish([name |-> "where_filter", field |-> f, value |-> v],
               where_filter(heap, L, f, v))

CallWhereGreaterThan ==
    \E f \in Fields, t \in Thresholds :
        Finish([name |-> "where_greater_than", field |-> f, threshold |-> t],
               where_greater_than(heap, L, f, t))

CallGroupByCount ==
    \E g \in Fields :
        Finish([name |-> "group_by_count", field |-> g], group_by_count(heap, L, g))

CallGroupBySum ==
    \E g \in Fields, s \in Fields :
        Finish([name |-> "group_by_sum", field |-> g, sum_field |-> s],
               group_by_sum(heap, L, g, s))

CallAggregateSumByKey ==
    \E g \in Fields, s \in Fields :
        Finish([name |-> "aggregate_sum_by_key", field |-> g, sum_field |-> s],
               aggregate_sum_by_key(heap, L, g, s))

CallDfGroupbySum ==
    \E g \in Fields, s \in Fields :
        Finish([name |-> "df_groupby_sum", field |-> g, sum_field |-> s],
               df_groupby_sum(heap, L, g, s))

CallOrderBy ==
    \E f \in Fields, asc \in BOOLEAN :
        Finish([name |-> "order_by", field |-> f, ascending |-> asc],
               order_by(heap, L, f, asc))

CallDfOrderBy ==
    \E f \in Fields, asc \in BOOLEAN :
        Finish([name |-> "df_order_by", field |-> f, ascending |-> asc],
               df_order_by(heap, L, f, asc))

\* the grouped data is any dict of the table: a mapping from a name to a value
CallHavingFilter ==
    \E i \in 1..Len(heap[L]), t \in Thresholds :
        Finish([name |-> "having_filter", grouped_data |-> heap[L][i], threshold |-> t],
               having_filter(heap, heap[L][i], t))

CallDistinctValues ==
    \E f \in Fields : \E order \in Orderings(distinct_set(heap, L, f)) :
        Finish([name |-> "distinct_values", field |-> f],
               distinct_values(heap, L, f, order))

CallPivotData ==
    \E rk \in Fields, ck \in Fields, vk \in Fields :
        Finish([name |-> "pivot_data", field |-> rk, column_key |-> ck, value_key |-> vk],
               pivot_data(heap, L, rk, ck, vk))

CallRankRecords ==
    \E f \in Fields :
        Finish([name |-> "rank_records", field |-> f], rank_records(heap, L, f))

Next ==
    \/ CallRemoveNullRecords
    \/ CallRemoveDuplicates
    \/ CallSelectColumns
    \/ CallWhereFilter
    \/ CallWhereGreaterThan
    \/ CallGroupByCount
    \/ CallGroupBySum
    \/ CallAggregateSumByKey
    \/ CallDfGroupbySum
    \/ CallOrderBy
    \/ CallDfOrderBy
    \/ CallHavingFilter
    \/ CallDistinctValues
    \/ CallPivotData
    \/ CallRankRecords

Spec == Init /\ [][Next]_vars

\* the cleaning operators alone
NextClean ==
    \/ CallRemoveNullRecords
    \/ CallRemoveDuplicates

SpecClean == Init /\ [][NextClean]_vars

\* the three group-and-sum operators alone
NextGroup ==
    \/ CallGroupBySum
    \/ CallAggregateSumByKey
    \/ CallDfGroupbySum

SpecGroup == Init /\ [][NextGroup]_vars

\* the two sorts alone
NextSort ==
    \/ CallOrderBy
    \/ CallDfOrderBy

SpecSort == Init /\ [][NextSort]_vars

\* the ranking alone
SpecRank == Init /\ [][CallRankRecords]_vars


CallDfFilter ==
    \E f \in Fields, t \in Thresholds :
        Finish([name |-> "df_filter", field |-> f, threshold |-> t],
               df_filter(heap, L, f, t))

CallFilterRecordsByThreshold ==
    \E f \in Fields, t \in Thresholds :
        Finish([name |-> "filter_records_by_threshold", field |-> f, threshold |-> t],
               filter_records_by_threshold(heap, L, f, t))

\* the three greater-than filters alone
NextFilter ==
    \/ CallWhereGreaterThan
    \/ CallDfFilter
    \/ CallFilterRecordsByThreshold

SpecFilter == Init /\ [][NextFilter]_vars


----------------------------------------------------------------------------
(* The calls on two tables *)

\* the dicts of `left` at 1..n, those of `right` at n+1..n+m, then the two lists
TablesOf(n, recs) ==
    [r \in 1..(Len(recs) + 2) |->
        IF r <= Len(recs) THEN recs[r]
        ELSE IF r = Len(recs) + 1 THEN [i \in 1..n |-> i]
        ELSE [i \in 1..(Len(recs) - n) |-> n + i]]

InitJoin ==
    /\ \E t \in 0..MaxJoin : \E n \in 0..t : \E recs \in [1..t -> Recs] :
        /\ heap = TablesOf(n, recs)
        /\ L = t + 1
        /\ R = t + 2
    /\ pc = "start"
    /\ op = [name |-> "none"]
    /\ out = [kind |-> "none"]
    /\ etl = NoEtl
    /\ doc = NoDoc
    /\ logger = LoggerAfterImport

CallInnerJoin ==
    \E k \in Fields :
        Finish([name |-> "inner_join", field |-> k], inner_join(heap, L, R, k))

CallInnerJoinTr ==
    \E k \in Fields :
        Finish([name |-> "inner_join_tr", field |-> k], inner_join_tr(heap, L, R, k))

CallDfJoin ==
    \E k \in Fields :
        Finish([name |-> "df_join", field |-> k], df_join(heap, L, R, k))

CallLeftJoin ==
    \E k \in Fields :
        Finish([name |-> "left_join", field |-> k], left_join(heap, L, R, k))

NextJoin ==
    \/ CallInnerJoin
    \/ CallInnerJoinTr
    \/ CallDfJoin
    \/ CallLeftJoin

SpecJoin == InitJoin /\ [][NextJoin]_vars

SpecLeftJoin == InitJoin /\ [][CallLeftJoin]_vars

\* the two inner joins that read the left key with get
NextInnerJoin ==
    \/ CallInnerJoin
    \/ CallDfJoin

SpecInnerJoin == InitJoin /\ [][NextInnerJoin]_vars


----------------------------------------------------------------------------
(* The calls on a list of numbers *)

ListNums == -2..2
BucketSizes == {-2, 0, 2, 3}

InitValues ==
    /\ \E n \in 0..MaxLen : \E values \in [1..n -> {PyInt(x) : x \in ListNums}] :
        heap = <<values>>
    /\ L = 1
    /\ R = 0
    /\ pc = "start"
    /\ op = [name |-> "none"]
    /\ out = [kind |-> "none"]
    /\ etl = NoEtl
    /\ doc = NoDoc
    /\ logger = LoggerAfterImport

CallRunningTotal ==
    Finish([name |-> "running_total"], running_total(heap, L))

CallBucketizeValues ==
    \E b \in BucketSizes :
        Finish([name |-> "bucketize_values", bucket_size |-> b],
               bucketize_values(heap, L, b))

NextValues ==
    \/ CallRunningTotal
    \/ CallBucketizeValues

SpecValues == InitValues /\ [][NextValues]_vars

----------------------------------------------------------------------------
(* The calls on one record *)

\* a record at reference 1 and a mapping of defaults at reference 2
InitFill ==
    /\ \E record \in Recs, defaults \in Recs : heap = <<record, defaults>>
    /\ L = 1
    /\ R = 2
    /\ pc = "start"
    /\ op = [name |-> "none"]
    /\ out = [kind |-> "none"]
    /\ etl = NoEtl
    /\ doc = NoDoc
    /\ logger = LoggerAfterImport

\* fill_missing_fields(record, defaults), and the same call once more; op keeps
\* the record as it was before the first call and before this one
CallFillMissingFields ==
    /\ pc \in {"start", "done"}
    /\ pc' = IF pc = "start" THEN "done" ELSE "again"
    /\ \E items \in Orderings(DOMAIN heap[R]) :
        LET o == fill_missing_fields(heap, L, R, items)
        IN  /\ out' = [x \in DOMAIN o \ {"heap"} |-> o[x]]
            /\ heap' = o.heap
    /\ op' = [name |-> "fill_missing_fields",
              first |-> IF pc = "start" THEN heap[L] ELSE op.first,
              before |-> heap[L],
              defaults |-> heap[R]]
    /\ UNCHANGED <<L, R, etl, doc, logger>>

SpecFill == InitFill /\ [][CallFillMissingFields]_vars

----------------------------------------------------------------------------
(* The mini ETL pipeline *)

PyStr(s) == [t |-> "str", v |-> s]
\* the float n * 0.1
PyFloatTenths(n) == [t |-> "float", tenths |-> n]

Cells == {"", "5", "x"}
Headers == {<<"amount">>, <<"category">>, <<"category", "amount">>}
RowShapes == UNION {[1..w -> Cells] : w \in 1..2}

\* the key csv.DictReader files the cells beyond the header under (restkey=None)
RestKey == "<None>"

\* the input file: missing, empty, or a header line and data rows
InputFiles ==
    {[kind |-> "missing"], [kind |-> "empty"]}
    \cup {[kind |-> "csv", header |-> hd, rows |-> rows] :
            hd \in Headers, rows \in UNION {[1..n -> RowShapes] : n \in 0..MaxRows}}

\* csv.DictReader: one dict per row; a short row gets None for the fields it
\* lacks, a long row gets its surplus cells, as a list, under RestKey
DictRow(header, cells) ==
    [k \in {header[i] : i \in 1..Len(header)}
            \cup (IF Len(cells) > Len(header) THEN {RestKey} ELSE {}) |->
        IF k = RestKey
        THEN [t |-> "list", v |-> SubSeq(cells, Len(header) + 1, Len(cells))]
        ELSE LET i == CHOOSE x \in 1..Len(header) : header[x] = k
             IN  IF i <= Len(cells) THEN PyStr(cells[i]) ELSE PyNone]

RECURSIVE extract_rows(_, _, _, _)
extract_rows(h, file, i, refs) ==
    IF i > Len(file.rows) THEN ReturnNew(refs, h)
    ELSE extract_rows(Alloc(h, DictRow(file.header, file.rows[i])), file, i + 1,
                      Append(refs, NewRef(h)))

extract_csv(h, file) ==
    IF file.kind = "missing" THEN Raise("FileNotFoundError", h)
    ELSE IF file.kind = "empty" THEN ReturnNew(<<>>, h)
    ELSE extract_rows(h, file, 1, <<>>)

clean_data(h, records, field) ==
    ReturnNew(SelectSeq(h[records],
                LAMBDA r : Get(h[r], field) \notin {PyNone, PyStr("")}), h)

\* float(x): a number as it is, the digits of a text as a number, ValueError
\* for any other text, TypeError for None or a list
FloatOf(x) ==
    IF x.t = "int" THEN Ok(x.v)
    ELSE IF x.t # "str" THEN Err("TypeError")
    ELSE IF x.v = "5" THEN Ok(5) ELSE Err("ValueError")

RECURSIVE transform_loop(_, _, _)
transform_loop(h, records, i) ==
    IF i > Len(h[records]) THEN Return(records, h)
    ELSE LET record == h[h[records][i]]
             amount == FloatOf(GetOr(record, "amount", PyInt(0)))
         IN  IF ~amount.ok THEN Raise(amount.exc, h)
             ELSE transform_loop(
                      Store(h, h[records][i],
                            SetItem(record, "tax", PyFloatTenths(amount.val))),
                      records, i + 1)

transform_add_tax(h, records) == transform_loop(h, records, 1)

\* csv.DictWriter.writerows: a row with a key outside fieldnames raises ValueError,
\* the rows before it written
RECURSIVE writerows(_, _, _, _, _)
writerows(h, data, fieldnames, i, written) ==
    IF i > Len(h[data]) THEN Ok(written)
    ELSE IF DOMAIN h[h[data][i]] \ fieldnames # {}
         THEN [ok |-> FALSE, exc |-> "ValueError", val |-> written]
         ELSE writerows(h, data, fieldnames, i + 1, Append(written, h[h[data][i]]))

Stages == <<"extract", "clean", "transform", "load">>

StageAfter_skip_clean(stage) ==
    IF stage = "extract" THEN "transform"
    ELSE IF stage = "transform" THEN "load" ELSE "return"

\* run_etl: the statement that follows each of its statements
StageAfter(stage) ==
    IF stage = "extract" THEN "clean"
    ELSE IF stage = "clean" THEN "transform"
    ELSE IF stage = "transform" THEN "load" ELSE "return"

Catches_value_errors_only(exc) == exc = "ValueError"

\* except Exception: every error a stage raises is an Exception
Catches(exc) ==
    exc \in {"FileNotFoundError", "PermissionError", "ValueError", "TypeError",
             "IndexError", "UnboundLocalError"}

NoExc == [type |-> "none"]

InitEtl ==
    /\ heap = <<>>
    /\ L = 0 /\ R = 0
    /\ pc = "etl"
    /\ op = [name |-> "none"]
    /\ out = [kind |-> "none"]
    /\ doc = NoDoc
    /\ logger = LoggerAfterImport
    /\ \E caller \in {"run_etl", "safe_etl_execution"}, input \in InputFiles,
          openable \in BOOLEAN, outfile \in {[kind |-> "absent"], [kind |-> "old"]} :
        etl = [pc |-> "extract", caller |-> caller, input |-> input,
               openable |-> openable, outfile |-> outfile,
               data |-> 0, cleaned |-> 0, transformed |-> 0,
               exc |-> NoExc, stages |-> <<>>]

\* a stage ends: its result is bound and the next statement is reached, or its
\* exception leaves run_etl
StageEnds(stage, o, local) ==
    /\ heap' = o.heap
    /\ etl' = IF Returned(o)
              THEN [etl EXCEPT !.pc = StageAfter(stage), ![local] = o.val,
                               !.stages = Append(@, stage)]
              ELSE [etl EXCEPT !.pc = "unwind", !.stages = Append(@, stage),
                               !.exc = [type |-> o.exc, stage |-> stage]]
    /\ UNCHANGED <<L, R, pc, op, out, doc, logger>>

\* reading a local that no statement has bound
Unbound(h) == Raise("UnboundLocalError", h)

Extract ==
    /\ etl.pc = "extract"
    /\ StageEnds("extract", extract_csv(heap, etl.input), "data")

Clean ==
    /\ etl.pc = "clean"
    /\ StageEnds("clean",
                 IF etl.data = 0 THEN Unbound(heap)
                 ELSE clean_data(heap, etl.data, "amount"), "cleaned")

Transform ==
    /\ etl.pc = "transform"
    /\ StageEnds("transform",
                 IF etl.cleaned = 0 THEN Unbound(heap)
                 ELSE transform_add_tax(heap, etl.cleaned), "transformed")

Load_opens_first ==
    /\ etl.pc = "load"
    /\ UNCHANGED <<heap, L, R, pc, op, out, doc, logger>>
    /\ LET fail(e) == [etl EXCEPT !.pc = "unwind", !.stages = Append(@, "load"),
                                  !.exc = [type |-> e, stage |-> "load"]]
           empty == [kind |-> "csv", header |-> {}, rows |-> <<>>]
       IN  IF etl.transformed = 0 THEN etl' = fail("UnboundLocalError")
           ELSE IF ~etl.openable THEN etl' = fail("PermissionError")
           ELSE IF Len(heap[etl.transformed]) = 0
           THEN etl' = [fail("IndexError") EXCEPT !.outfile = empty]
           ELSE LET fieldnames == DOMAIN heap[heap[etl.transformed][1]]
                    w == writerows(heap, etl.transformed, fieldnames, 1, <<>>)
                    file == [kind |-> "csv", header |-> fieldnames, rows |-> w.val]
                IN  IF w.ok
                    THEN etl' = [etl EXCEPT !.pc = "return", !.outfile = file,
                                            !.stages = Append(@, "load")]
                    ELSE etl' = [fail(w.exc) EXCEPT !.outfile = file]

\* load_to_csv(output_file, transformed, transformed[0].keys()): the arguments
\* are evaluated, then the file is opened for writing, then written
Load ==
    /\ etl.pc = "load"
    /\ UNCHANGED <<heap, L, R, pc, op, out, doc, logger>>
    /\ LET fail(e) == [etl EXCEPT !.pc = "unwind", !.stages = Append(@, "load"),
                                  !.exc = [type |-> e, stage |-> "load"]]
       IN  IF etl.transformed = 0 THEN etl' = fail("UnboundLocalError")
           ELSE IF Len(heap[etl.transformed]) = 0 THEN etl' = fail("IndexError")
           ELSE IF ~etl.openable THEN etl' = fail("PermissionError")
           ELSE LET fieldnames == DOMAIN heap[heap[etl.transformed][1]]
                    w == writerows(heap, etl.transformed, fieldnames, 1, <<>>)
                    file == [kind |-> "csv", header |-> fieldnames, rows |-> w.val]
                IN  IF w.ok
                    THEN etl' = [etl EXCEPT !.pc = "return", !.outfile = file,
                                            !.stages = Append(@, "load")]
                    ELSE etl' = [fail(w.exc) EXCEPT !.outfile = file]

\* run_etl returns to its caller
ReturnFromRunEtl ==
    /\ etl.pc = "return"
    /\ etl' = [etl EXCEPT !.pc = "returned"]
    /\ UNCHANGED <<heap, L, R, pc, op, out, doc, logger>>

\* an exception leaves run_etl: safe_etl_execution catches and logs it, a plain
\* caller of run_etl receives it
Unwind ==
    /\ etl.pc = "unwind"
    /\ IF etl.caller = "safe_etl_execution" /\ Catches(etl.exc.type)
       THEN /\ etl' = [etl EXCEPT !.pc = "returned"]
            /\ logger' = LogError(logger, [exc |-> etl.exc.type])
       ELSE /\ etl' = [etl EXCEPT !.pc = "raised"]
            /\ UNCHANGED logger
    /\ UNCHANGED <<heap, L, R, pc, op, out, doc>>

NextEtl ==
    \/ Extract
    \/ Clean
    \/ Transform
    \/ Load
    \/ ReturnFromRunEtl
    \/ Unwind

SpecEtl == InitEtl /\ [][NextEtl]_vars

----------------------------------------------------------------------------
(* The JSON file adapter *)

PyBool(b) == [t |-> "bool", v |-> b]
PyNaN == [t |-> "float", v |-> "nan"]
PyList(items) == [t |-> "list", v |-> items]
PyTuple(items) == [t |-> "tuple", v |-> items]
\* a dict in insertion order: a sequence of <<key, value>> with distinct keys
PyDict(pairs) == [t |-> "dict", v |-> pairs]

Atoms == {PyNone, PyBool(TRUE), PyInt(1), PyStr("a"), PyNaN}
DictKeys == {PyStr("a"), PyStr("1"), PyInt(1)}

\* the structures of exactly n nodes, and the sequences of structures of n nodes in all
RECURSIVE DocsOfSize(_), DocSeqs(_)
DocSeqs(n) ==
    IF n = 0 THEN {<<>>}
    ELSE UNION {{<<d>> \o rest : d \in DocsOfSize(a), rest \in DocSeqs(n - a)} : a \in 1..n}

KeyLists(len) ==
    {ks \in [1..len -> DictKeys] : \A i, j \in 1..len : i # j => ks[i] # ks[j]}

DocsOfSize(n) ==
    (IF n = 1 THEN Atoms ELSE {})
    \cup {PyList(s) : s \in DocSeqs(n - 1)}
    \cup {PyTuple(s) : s \in DocSeqs(n - 1)}
    \cup UNION {{PyDict([i \in 1..Len(s) |-> <<ks[i], s[i]>>]) : ks \in KeyLists(Len(s))}
                  : s \in DocSeqs(n - 1)}

Docs == UNION {DocsOfSize(n) : n \in 1..MaxNodes}

\* the text of a file, as its JSON tokens (the white space between them left out)
Tok(k) == [k |-> k]
StrTok(s) == [k |-> "string", v |-> s]
NumTok(n) == [k |-> "number", v |-> n]

\* json.dump turns a key that is not text into text
JsonKey(key) == IF key.t = "str" THEN key.v ELSE ToString(key.v)

RECURSIVE dumps(_), dumps_items(_, _), dumps_members(_, _)
dumps(d) ==
    CASE d.t = "none" -> <<Tok("null")>>
      [] d.t = "bool" -> <<Tok(IF d.v THEN "true" ELSE "false")>>
      [] d.t = "int" -> <<NumTok(d.v)>>
      [] d.t = "float" -> <<Tok("NaN")>>
      [] d.t = "str" -> <<StrTok(d.v)>>
      [] d.t \in {"list", "tuple"} -> <<Tok("[")>> \o dumps_items(d.v, 1) \o <<Tok("]")>>
      [] d.t = "dict" -> <<Tok("{")>> \o dumps_members(d.v, 1) \o <<Tok("}")>>

dumps_items(items, i) ==
    IF i > Len(items) THEN <<>>
    ELSE (IF i > 1 THEN <<Tok(",")>> ELSE <<>>) \o dumps(items[i]) \o dumps_items(items, i + 1)

dumps_members(pairs, i) ==
    IF i > Len(pairs) THEN <<>>
    ELSE (IF i > 1 THEN <<Tok(",")>> ELSE <<>>)
         \o <<StrTok(JsonKey(pairs[i][1])), Tok(":")>> \o dumps(pairs[i][2])
         \o dumps_members(pairs, i + 1)

\* d[key] = value on a dict in insertion order
DictPut(pairs, key, value) ==
    IF \E i \in 1..Len(pairs) : pairs[i][1] = key
    THEN [i \in 1..Len(pairs) |-> IF pairs[i][1] = key THEN <<key, value>> ELSE pairs[i]]
    ELSE Append(pairs, <<key, value>>)

LoadNumber_as_text(n) == PyStr(ToString(n))

\* a number token read back
LoadNumber(n) == PyInt(n)

\* json.load: the value that starts at token i, and the position after it
RECURSIVE loads_at(_, _), loads_items(_, _, _), loads_members(_, _, _)
loads_at(toks, i) ==
    LET tk == toks[i]
    IN  CASE tk.k = "null" -> [val |-> PyNone, next |-> i + 1]
          [] tk.k = "true" -> [val |-> PyBool(TRUE), next |-> i + 1]
          [] tk.k = "false" -> [val |-> PyBool(FALSE), next |-> i + 1]
          [] tk.k = "NaN" -> [val |-> PyNaN, next |-> i + 1]
          [] tk.k = "number" -> [val |-> LoadNumber(tk.v), next |-> i + 1]
          [] tk.k = "string" -> [val |-> PyStr(tk.v), next |-> i + 1]
          [] tk.k = "[" -> loads_items(toks, i + 1, <<>>)
          [] tk.k = "{" -> loads_members(toks, i + 1, <<>>)

loads_items(toks, i, items) ==
    IF toks[i].k = "]" THEN [val |-> PyList(items), next |-> i + 1]
    ELSE IF toks[i].k = "," THEN loads_items(toks, i + 1, items)
    ELSE LET item == loads_at(toks, i)
         IN  loads_items(toks, item.next, Append(items, item.val))

loads_members(toks, i, pairs) ==
    IF toks[i].k = "}" THEN [val |-> PyDict(pairs), next |-> i + 1]
    ELSE IF toks[i].k = "," THEN loads_members(toks, i + 1, pairs)
    ELSE LET value == loads_at(toks, i + 2)
         IN  loads_members(toks, value.next, DictPut(pairs, PyStr(toks[i].v), value.val))

write_json(data) == dumps(data)
read_json(file) == loads_at(file, 1).val

InitJson ==
    /\ heap = <<>>
    /\ L = 0 /\ R = 0
    /\ pc = "json"
    /\ op = [name |-> "none"]
    /\ out = [kind |-> "none"]
    /\ etl = NoEtl
    /\ logger = LoggerAfterImport
    /\ \E d \in Docs : doc = [pc |-> "start", data |-> d]

WriteJson ==
    /\ doc.pc = "start"
    /\ doc' = [pc |-> "written", data |-> doc.data, file |-> write_json(doc.data)]
    /\ UNCHANGED <<heap, L, R, pc, op, out, etl, logger>>

ReadJson ==
    /\ doc.pc = "written"
    /\ doc' = [pc |-> "read", data |-> doc.data, file |-> doc.file,
               result |-> read_json(doc.file)]
    /\ UNCHANGED <<heap, L, R, pc, op, out, etl, logger>>

NextJson ==
    \/ WriteJson
    \/ ReadJson

SpecJson == InitJson /\ [][NextJson]_vars

----------------------------------------------------------------------------
(* Flattening a nested mapping *)

MaxEntries == 3   \* key/value entries of a nested mapping, at all levels together

FlatKeys == {"a", "b", "a_b"}
Leaves == {PyInt(1), PyInt(2)}

FlatKeyLists(len) ==
    {ks \in [1..len -> FlatKeys] : \A i, j \in 1..len : i # j => ks[i] # ks[j]}

\* the mappings of n entries in all (text keys, nested to any depth), the values
\* that take a entries (a leaf takes one, a mapping one more than it holds) and
\* the sequences of values that take n entries
RECURSIVE MappingsOfSize(_), ValuesOfCost(_), ValueSeqs(_)
ValueSeqs(n) ==
    IF n = 0 THEN {<<>>}
    ELSE UNION {{<<v>> \o rest : v \in ValuesOfCost(a), rest \in ValueSeqs(n - a)}
                  : a \in 1..n}

ValuesOfCost(a) == (IF a = 1 THEN Leaves ELSE {}) \cup MappingsOfSize(a - 1)

MappingsOfSize(n) ==
    UNION {{PyDict([i \in 1..Len(s) |-> <<PyStr(ks[i]), s[i]>>]) : ks \in FlatKeyLists(Len(s))}
             : s \in ValueSeqs(n)}

NestedMappings == UNION {MappingsOfSize(n) : n \in 0..MaxEntries}

\* for sub_key, sub_value in value.items(): flat[f"{key}_{sub_key}"] = sub_value
RECURSIVE flatten_sub(_, _, _, _)
flatten_sub(flat, key, items, j) ==
    IF j > Len(items) THEN flat
    ELSE flatten_sub(DictPut(flat, PyStr(key.v \o "_" \o items[j][1].v), items[j][2]),
                     key, items, j + 1)

\* for key, value in data.items(): one level of a mapping is spread, any other
\* value is copied
RECURSIVE flatten_loop(_, _, _)
flatten_loop(items, i, flat) ==
    IF i > Len(items) THEN flat
    ELSE LET key == items[i][1]
             value == items[i][2]
         IN  flatten_loop(items, i + 1,
                 IF value.t = "dict" THEN flatten_sub(flat, key, value.v, 1)
                 ELSE DictPut(flat, key, value))

flatten_json(data) == PyDict(flatten_loop(data.v, 1, <<>>))

InitFlatten ==
    /\ heap = <<>>
    /\ L = 0 /\ R = 0
    /\ pc = "flatten"
    /\ op = [name |-> "none"]
    /\ out = [kind |-> "none"]
    /\ etl = NoEtl
    /\ logger = LoggerAfterImport
    /\ \E d \in NestedMappings : doc = [pc |-> "start", data |-> d]

FlattenJson ==
    /\ pc = "flatten" /\ doc.pc = "start"
    /\ doc' = [pc |-> "flat", data |-> doc.data, result |-> flatten_json(doc.data)]
    /\ UNCHANGED <<heap, L, R, pc, op, out, etl, logger>>

SpecFlatten == InitFlatten /\ [][FlattenJson]_vars

----------------------------------------------------------------------------
(* The DataFrame-style operators that work in place, and the cache *)

\* record.pop(column, None)
DictPop(rec, key) == [k \in DOMAIN rec \ {key} |-> rec[k]]

\* cached_data = records.copy(): a new list of the same record objects
df_cache(h, records) == ReturnNew(h[records], h)

\* record[new_column] = record.get("amount", 0) * 0.1, record after record;
\* None * 0.1 raises TypeError and leaves the earlier records changed
RECURSIVE df_with_column_loop(_, _, _, _)
df_with_column_loop(h, records, new_column, i) ==
    IF i > Len(h[records]) THEN Return(records, h)
    ELSE LET record == h[records][i]
             amount == GetOr(h[record], "amount", PyInt(0))
         IN  IF ~IsInt(amount) THEN Raise("TypeError", h)
             ELSE df_with_column_loop(
                      Store(h, record, SetItem(h[record], new_column, PyFloatTenths(amount.v))),
                      records, new_column, i + 1)

df_with_column(h, records, new_column) == df_with_column_loop(h, records, new_column, 1)

RECURSIVE df_drop_loop(_, _, _, _)
df_drop_loop(h, records, column, i) ==
    IF i > Len(h[records]) THEN Return(records, h)
    ELSE df_drop_loop(Store(h, h[records][i], DictPop(h[h[records][i]], column)),
                      records, column, i + 1)

df_drop(h, records, column) == df_drop_loop(h, records, column, 1)

\* record[new_name] = record.pop(old_name): KeyError on a record without old_name
RECURSIVE df_rename_loop(_, _, _, _, _)
df_rename_loop(h, records, old_name, new_name, i) ==
    IF i > Len(h[records]) THEN Return(records, h)
    ELSE LET record == h[records][i]
         IN  IF old_name \notin DOMAIN h[record] THEN Raise("KeyError", h)
             ELSE df_rename_loop(
                      Store(h, record,
                            SetItem(DictPop(h[record], old_name), new_name, h[record][old_name])),
                      records, old_name, new_name, i + 1)

df_rename_column(h, records, old_name, new_name) ==
    df_rename_loop(h, records, old_name, new_name, 1)

\* if record.get(field) is None: record[field] = default_value
RECURSIVE df_fill_na_loop(_, _, _, _, _)
df_fill_na_loop(h, records, field, default_value, i) ==
    IF i > Len(h[records]) THEN Return(records, h)
    ELSE LET record == h[records][i]
         IN  df_fill_na_loop(
                 IF Get(h[record], field) = PyNone
                 THEN Store(h, record, SetItem(h[record], field, default_value))
                 ELSE h,
                 records, field, default_value, i + 1)

df_fill_na(h, records, field, default_value) ==
    df_fill_na_loop(h, records, field, default_value, 1)

\* the records of a table, as dicts
Content(h, records) == [i \in 1..Len(h[records]) |-> h[h[records][i]]]

InitCache ==
    /\ \E n \in 0..MaxChecked : \E recs \in [1..n -> Recs] :
        /\ heap = TableOf(recs)
        /\ L = n + 1
    /\ R = 0
    /\ pc = "start"
    /\ op = [name |-> "none"]
    /\ out = [kind |-> "none"]
    /\ etl = NoEtl
    /\ doc = NoDoc
    /\ logger = LoggerAfterImport

\* c = df_cache(T): R is the cache, op keeps what T held at that moment
DfCache ==
    /\ pc = "start"
    /\ LET o == df_cache(heap, L)
       IN  /\ heap' = o.heap
           /\ R' = o.val
           /\ out' = [kind |-> "return", val |-> o.val]
    /\ pc' = "cached"
    /\ op' = [name |-> "df_cache", held |-> Content(heap, L)]
    /\ UNCHANGED <<L, etl, doc, logger>>

\* an operator is applied to T after the caching
Applied(name, o) ==
    /\ pc = "cached"
    /\ heap' = o.heap
    /\ out' = [x \in DOMAIN o \ {"heap"} |-> o[x]]
    /\ op' = [op EXCEPT !.name = name]
    /\ UNCHANGED <<L, R, pc, etl, doc, logger>>

DfWithColumn == Applied("df_with_column", df_with_column(heap, L, "tax"))

DfDrop == \E column \in {"amount", "tax"} : Applied("df_drop", df_drop(heap, L, column))

DfRenameColumn == Applied("df_rename_column", df_rename_column(heap, L, "id", "key"))

DfFillNa == Applied("df_fill_na", df_fill_na(heap, L, "amount", PyInt(0)))

NextCache ==
    \/ DfCache
    \/ DfWithColumn
    \/ DfDrop
    \/ DfRenameColumn
    \/ DfFillNa

SpecCache == InitCache /\ [][NextCache]_vars

----------------------------------------------------------------------------
(* The validators *)

DateText == "2024-01-31"
EmailText == "a@b.co"

\* the values a field can hold when nothing has been validated yet
AnyVals == {PyNone, PyInt(1), PyStr(DateText), PyStr(EmailText)}
AnyRecs == UNION {[ks -> AnyVals] : ks \in SUBSET Fields}

\* isinstance(value, (int, float))
is_numeric(h, value) == Return(PyBool(value.t \in {"int", "bool", "float"}), h)

\* datetime.strptime(date_str, "%Y-%m-%d"): TypeError unless date_str is text,
\* ValueError for text that is not a date; of the texts here only DateText is one
Strptime(date_str) ==
    IF date_str.t # "str" THEN Err("TypeError")
    ELSE IF date_str.v = DateText THEN Ok(date_str.v)
    ELSE Err("ValueError")

\* try / except ValueError
validate_date_format(h, date_str) ==
    LET parsed == Strptime(date_str)
    IN  IF parsed.ok THEN Return(PyBool(TRUE), h)
        ELSE IF parsed.exc = "ValueError" THEN Return(PyBool(FALSE), h)
        ELSE Raise(parsed.exc, h)

\* re.match(r"[^@]+@[^@]+\.[^@]+", email): TypeError unless email is text; of
\* the texts here only EmailText matches
ReMatch(email) ==
    IF email.t # "str" THEN Err("TypeError")
    ELSE Ok(email.v = EmailText)

validate_email(h, email) ==
    LET matched == ReMatch(email)
    IN  IF matched.ok THEN Return(PyBool(matched.val), h)
        ELSE Raise(matched.exc, h)

validate_schema(h, records) ==
    IF Len(h[records]) = 0 THEN Return(PyBool(TRUE), h)
    ELSE LET base_schema == DOMAIN h[h[records][1]]
         IN  Return(PyBool(\A i \in 1..Len(h[records]) :
                               DOMAIN h[h[records][i]] = base_schema), h)

\* [record for record in records if isinstance(record.get(id_field), int)]
remove_invalid_ids(h, records, id_field) ==
    ReturnNew(SelectSeq(h[records],
                LAMBDA r : Get(h[r], id_field).t \in {"int", "bool"}), h)

\* required_fields.issubset(record.keys())
validate_mandatory_fields(h, record, required_fields) ==
    Return(PyBool(required_fields \subseteq DOMAIN h[record]), h)

InitValidate ==
    /\ \E n \in 0..MaxChecked : \E recs \in [1..n -> AnyRecs] :
        /\ heap = TableOf(recs)
        /\ L = n + 1
    /\ R = 0
    /\ pc = "start"
    /\ op = [name |-> "none"]
    /\ out = [kind |-> "none"]
    /\ etl = NoEtl
    /\ doc = NoDoc
    /\ logger = LoggerAfterImport

CallIsNumeric ==
    \E v \in AnyVals :
        Finish([name |-> "is_numeric", value |-> v], is_numeric(heap, v))

CallValidateDateFormat ==
    \E v \in AnyVals :
        Finish([name |-> "validate_date_format", value |-> v],
               validate_date_format(heap, v))

CallValidateEmail ==
    \E v \in AnyVals :
        Finish([name |-> "validate_email", value |-> v], validate_email(heap, v))

CallValidateSchema ==
    Finish([name |-> "validate_schema"], validate_schema(heap, L))

CallRemoveInvalidIds ==
    \E f \in Fields :
        Finish([name |-> "remove_invalid_ids", field |-> f],
               remove_invalid_ids(heap, L, f))

CallValidateMandatoryFields ==
    \E i \in 1..Len(heap[L]), required \in SUBSET Fields :
        Finish([name |-> "validate_mandatory_fields", record |-> heap[L][i],
                required_fields |-> required],
               validate_mandatory_fields(heap, heap[L][i], required))

NextValidate ==
    \/ CallIsNumeric
    \/ CallValidateDateFormat
    \/ CallValidateEmail
    \/ CallValidateSchema
    \/ CallRemoveInvalidIds
    \/ CallValidateMandatoryFields

SpecValidate == InitValidate /\ [][NextValidate]_vars

----------------------------------------------------------------------------
(* The aggregates over a list of numbers *)

RECURSIVE GCD(_, _)
GCD(a, b) == IF b = 0 THEN a ELSE GCD(b, a % b)

\* a / b for two ints, b not 0: a float, kept as the fraction in lowest terms
TrueDiv(a, b) ==
    LET s == IF b < 0 THEN 0 - 1 ELSE 1
        g == GCD(Abs(a), Abs(b))
    IN  [t |-> "float", num |-> (s * a) \div g, den |-> (s * b) \div g]

\* sum(values), min(values), max(values) of a list of ints
RECURSIVE PySum(_, _)
PySum(values, i) == IF i > Len(values) THEN 0 ELSE values[i].v + PySum(values, i + 1)
PyMin(values) ==
    CHOOSE m \in {values[i].v : i \in 1..Len(values)} :
        \A i \in 1..Len(values) : m <= values[i].v
PyMax(values) ==
    CHOOSE m \in {values[i].v : i \in 1..Len(values)} :
        \A i \in 1..Len(values) : m >= values[i].v

\* the outcome of a call that writes to the log
Logged(o, lg) ==
    [x \in DOMAIN o \cup {"logger"} |-> IF x = "logger" THEN lg ELSE o[x]]

\* try: return a / b; except ZeroDivisionError: log the error, return None
safe_division(h, lg, a, b) ==
    IF b = 0
    THEN Logged(Return(PyNone, h),
                LogError(lg, [msg |-> "Division by zero error occurred"]))
    ELSE Logged(Return(TrueDiv(a, b), h), lg)

calculate_average(h, values) ==
    IF Len(h[values]) = 0 THEN Return(PyInt(0), h)
    ELSE Return(TrueDiv(PySum(h[values], 1), Len(h[values])), h)

\* the dict display evaluates min(numbers) first, and min of an empty list
\* raises ValueError
summary_statistics(h, numbers) ==
    IF Len(h[numbers]) = 0 THEN Raise("ValueError", h)
    ELSE ReturnNew([min |-> PyInt(PyMin(h[numbers])),
                    max |-> PyInt(PyMax(h[numbers])),
                    sum |-> PyInt(PySum(h[numbers], 1)),
                    average |-> TrueDiv(PySum(h[numbers], 1), Len(h[numbers]))], h)

aggregate_metrics(h, values) ==
    IF Len(h[values]) = 0 THEN ReturnNew(EmptyDict, h)
    ELSE ReturnNew([sum |-> PyInt(PySum(h[values], 1)),
                    min |-> PyInt(PyMin(h[values])),
                    max |-> PyInt(PyMax(h[values])),
                    average |-> TrueDiv(PySum(h[values], 1), Len(h[values]))], h)

normalize_values(h, values) ==
    IF Len(h[values]) = 0 THEN Raise("ValueError", h)
    ELSE LET min_val == PyMin(h[values])
             max_val == PyMax(h[values])
         IN  ReturnNew([i \in 1..Len(h[values]) |->
                          IF max_val # min_val
                          THEN TrueDiv(h[values][i].v - min_val, max_val - min_val)
                          ELSE PyInt(0)], h)

\* a call that may write to the log runs to its end in one step
FinishLogged(call, o) ==
    /\ pc = "start"
    /\ pc' = "done"
    /\ op' = call
    /\ out' = [x \in DOMAIN o \ {"heap", "logger"} |-> o[x]]
    /\ heap' = o.heap
    /\ logger' = o.logger
    /\ UNCHANGED <<L, R, etl, doc>>

CallSafeDivision ==
    \E a \in ListNums, b \in ListNums :
        FinishLogged([name |-> "safe_division", a |-> a, b |-> b],
                     safe_division(heap, logger, a, b))

CallCalculateAverage ==
    Finish([name |-> "calculate_average"], calculate_average(heap, L))

CallSummaryStatistics ==
    Finish([name |-> "summary_statistics"], summary_statistics(heap, L))

CallAggregateMetrics ==
    Finish([name |-> "aggregate_metrics"], aggregate_metrics(heap, L))

CallNormalizeValues ==
    Finish([name |-> "normalize_values"], normalize_values(heap, L))

NextAggregate ==
    \/ CallSafeDivision
    \/ CallCalculateAverage
    \/ CallSummaryStatistics
    \/ CallAggregateMetrics
    \/ CallNormalizeValues

SpecAggregate == InitValues /\ [][NextAggregate]_vars

----------------------------------------------------------------------------
(* The process: the imports of the two modules that configure logging, and
   the operations that log or set the level *)

MaxCalls == 3     \* operations called after the imports

Modules == {"TESTING_LOGGING_CONFIGS", "MINI_ETL_TASKS"}
Envs == {"DEV", "PROD"}

InitProcess ==
    /\ \E n \in 0..1 : heap = <<[i \in 1..n |-> PyInt(1)]>>
    /\ L = 1
    /\ R = 0
    /\ pc = "process"
    /\ op = [name |-> "none", calls |-> 0, imported |-> {}]
    /\ out = [kind |-> "none"]
    /\ etl = NoEtl
    /\ doc = NoDoc
    /\ logger = LoggerAtStart

\* import of a module: its top-level logging.basicConfig(level=logging.INFO)
Import ==
    \E m \in Modules \ op.imported :
        /\ op' = [op EXCEPT !.imported = @ \cup {m}]
        /\ logger' = BasicConfig(logger, "INFO")
        /\ UNCHANGED <<heap, L, R, pc, out, etl, doc>>

\* an operation of module m is called: what it returns and the logger it leaves
Called(m, call, val, lg) ==
    /\ m \in op.imported
    /\ op.calls < MaxCalls
    /\ op' = [x \in DOMAIN call \cup {"calls", "imported"} |->
                IF x = "calls" THEN op.calls + 1
                ELSE IF x = "imported" THEN op.imported ELSE call[x]]
    /\ out' = [kind |-> "return", val |-> val]
    /\ logger' = lg
    /\ UNCHANGED <<heap, L, R, pc, etl, doc>>

log_pipeline_step(lg, step_name) == LogInfo(lg, [msg |-> "Executing step", arg |-> step_name])
log_record_count(h, lg, stage, records) ==
    LogInfo(lg, [msg |-> "record count", arg |-> stage, count |-> Len(h[records])])
log_step(lg, step_name) == LogInfo(lg, [msg |-> "ETL Step", arg |-> step_name])
track_record_counts(h, lg, input_records, output_records) ==
    LogInfo(LogInfo(lg, [msg |-> "Input record count", count |-> Len(h[input_records])]),
            [msg |-> "Output record count", count |-> Len(h[output_records])])

\* if env == "DEV": setLevel(DEBUG) else: setLevel(INFO)
set_logging_level(lg, env) ==
    IF env = "DEV" THEN SetLevel(lg, "DEBUG") ELSE SetLevel(lg, "INFO")

CallLogPipelineStep ==
    Called("TESTING_LOGGING_CONFIGS", [name |-> "log_pipeline_step"], PyNone,
           log_pipeline_step(logger, "clean"))

CallLogRecordCount ==
    Called("TESTING_LOGGING_CONFIGS", [name |-> "log_record_count"], PyNone,
           log_record_count(heap, logger, "clean", L))

CallSetLoggingLevel ==
    \E env \in Envs :
        Called("TESTING_LOGGING_CONFIGS", [name |-> "set_logging_level", env |-> env],
               PyNone, set_logging_level(logger, env))

CallSafeDivisionLogged ==
    \E b \in {0, 1} :
        LET o == safe_division(heap, logger, 1, b)
        IN  Called("TESTING_LOGGING_CONFIGS", [name |-> "safe_division", a |-> 1, b |-> b],
                   o.val, o.logger)

CallLogStep ==
    Called("MINI_ETL_TASKS", [name |-> "log_step"], PyNone, log_step(logger, "clean"))

CallTrackRecordCounts ==
    Called("MINI_ETL_TASKS", [name |-> "track_record_counts"], PyNone,
           track_record_counts(heap, logger, L, L))

NextProcess ==
    \/ Import
    \/ CallLogPipelineStep
    \/ CallLogRecordCount
    \/ CallSetLoggingLevel
    \/ CallSafeDivisionLogged
    \/ CallLogStep
    \/ CallTrackRecordCounts

SpecProcess == InitProcess /\ [][NextProcess]_vars

----------------------------------------------------------------------------
(* Vocabulary of the properties *)

Done(name) == pc = "done" /\ op.name = name

\* the records of the input tables and of the returned table, as dicts
InLen == Len(heap[L])
InRec(i) == heap[heap[L][i]]
RightLen == Len(heap[R])
RightRec(j) == heap[heap[R][j]]
OutList == heap[out.val]
OutRec(j) == heap[heap[out.val][j]]
OutDict == heap[out.val]

\* sub is seq restricted to the positions in keep, in the same order
IsSelection(sub, seq, keep) ==
    /\ Len(sub) = Cardinality(keep)
    /\ \E g \in [1..Len(sub) -> keep] :
        /\ \A a, b \in 1..Len(sub) : a < b => g[a] < g[b]
        /\ \A a \in 1..Len(sub) : sub[a] = seq[g[a]]

\* the position in the input table of the record at position j of the result
InputPos(j) == CHOOSE i \in 1..InLen : heap[L][i] = OutList[j]

\* the sum of field s over the input records at the positions in S, a missing s counting 0
RECURSIVE SumAt(_, _)
SumAt(S, s) ==
    IF S = {} THEN 0
    ELSE LET i == CHOOSE x \in S : TRUE
         IN  (IF s \in DOMAIN InRec(i) THEN InRec(i)[s].v ELSE 0) + SumAt(S \ {i}, s)

\* record d carries exactly the fields of a and b, with b's value where both have one
IsMerged(d, a, b) ==
    /\ DOMAIN d = DOMAIN a \cup DOMAIN b
    /\ \A f \in DOMAIN b : d[f] = b[f]
    /\ \A f \in DOMAIN a \ DOMAIN b : d[f] = a[f]

\* the left record at i has a right record with its value of k (a missing k is null)
Matched(i, k) ==
    \E j \in 1..RightLen : k \in DOMAIN RightRec(j) /\ RightRec(j)[k] = Get(InRec(i), k)

RightAllHave(k) == \A j \in 1..RightLen : k \in DOMAIN RightRec(j)

----------------------------------------------------------------------------
\* C1: remove_null_records(T, f) returns a table every record of which has a
\* non-null value at f; it is T without exactly the records that lack f or hold
\* null at f, the others (the same objects) in their order in T.
C1_RemoveNull ==
    Done("remove_null_records") =>
        /\ Returned(out)
        /\ \A j \in 1..Len(OutList) :
            op.field \in DOMAIN OutRec(j) /\ OutRec(j)[op.field] # PyNone
        /\ IsSelection(OutList, heap[L],
              {i \in 1..InLen :
                  op.field \in DOMAIN InRec(i) /\ InRec(i)[op.field] # PyNone})

\* a table with a record lacking f, one holding null at f and one kept
C1_Witness ==
    /\ Done("remove_null_records")
    /\ InLen = 3 /\ Len(OutList) = 1
    /\ \E i \in 1..3 : op.field \notin DOMAIN InRec(i)
    /\ \E i \in 1..3 : op.field \in DOMAIN InRec(i) /\ InRec(i)[op.field] = PyNone

\* C2: remove_duplicates(T, k) returns at most one record per value of k (a
\* record lacking k counting as null), the kept record of a value being the
\* first of T that carries it, and the kept records are in their order in T.
C2_RemoveDuplicates ==
    Done("remove_duplicates") =>
        /\ Returned(out)
        /\ \A a, b \in 1..Len(OutList) :
            a # b => Get(OutRec(a), op.field) # Get(OutRec(b), op.field)
        /\ IsSelection(OutList, heap[L],
              {i \in 1..InLen :
                  \A q \in 1..(i - 1) : Get(InRec(q), op.field) # Get(InRec(i), op.field)})

\* a later duplicate is dropped and a record lacking k shares null with one holding it
C2_Witness ==
    /\ Done("remove_duplicates")
    /\ InLen = 3 /\ Len(OutList) = 2
    /\ op.field \notin DOMAIN InRec(1)
    /\ op.field \in DOMAIN InRec(3) /\ InRec(3)[op.field] = PyNone
    /\ OutList = <<1, 2>>

InnerJoins == {"inner_join", "inner_join_tr", "df_join"}

\* the size and the origin of an inner join's result
JoinSizeIs ==
    /\ Returned(out)
    /\ Len(OutList) = Cardinality({i \in 1..InLen : Matched(i, op.field)})
    /\ \A a \in 1..Len(OutList) :
        \E i \in 1..InLen :
            Matched(i, op.field) /\ Get(OutRec(a), op.field) = Get(InRec(i), op.field)

\* C3: when every record of R has key k, each of the three inner joins returns
\* as many records as L has records whose value of k appears in R, and no
\* record of L without a match contributes one.
C3_InnerJoinSize ==
    (pc = "done" /\ op.name \in InnerJoins /\ RightAllHave(op.field)) => JoinSizeIs

\* what holds of the code: the claim for the two joins that read the left key
\* with get, and for the third on left tables whose records all have the key
C3_InnerJoinSizeGet ==
    (/\ pc = "done" /\ op.name \in InnerJoins /\ RightAllHave(op.field)
     /\ (op.name = "inner_join_tr" => \A i \in 1..InLen : op.field \in DOMAIN InRec(i)))
        => JoinSizeIs

\* the result of an order_by: the input's records, ordered by the field in the
\* direction asked, records of equal value in their input order
SortedStable ==
    /\ Returned(out)
    /\ Len(OutList) = InLen
    /\ {OutList[j] : j \in 1..Len(OutList)} = {heap[L][i] : i \in 1..InLen}
    /\ \A a, b \in 1..Len(OutList) :
        a < b =>
            LET ka == Get(OutRec(a), op.field)
                kb == Get(OutRec(b), op.field)
            IN  /\ ka # kb => IF op.ascending THEN ka.v < kb.v ELSE ka.v > kb.v
                /\ ka = kb => InputPos(a) < InputPos(b)

\* C4: order_by and df_order_by are stable in both directions: the result is
\* the input reordered by the field in the direction asked, and two records of
\* equal value keep their input order.
C4_OrderByStable ==
    (pc = "done" /\ op.name \in {"order_by", "df_order_by"}) => SortedStable

\* what holds of the code: the claim on every call that returns
C4_StableWhenReturned ==
    (pc = "done" /\ op.name \in {"order_by", "df_order_by"} /\ Returned(out))
        => SortedStable

\* a descending sort of three records, two of them of equal value
C4_DescendingTie ==
    /\ Done("order_by") /\ Returned(out) /\ ~op.ascending
    /\ InLen = 3
    /\ Get(OutRec(1), op.field) # Get(OutRec(2), op.field)
    /\ Get(OutRec(2), op.field) = Get(OutRec(3), op.field)

\* Python's ==, on the structures of the JSON adapter: NaN equals nothing, True
\* equals 1, a list never equals a tuple, dicts are equal whatever their order
RECURSIVE DeepEq(_, _)
DeepEq(a, b) ==
    IF a = PyNaN \/ b = PyNaN THEN FALSE
    ELSE IF {a.t, b.t} = {"bool", "int"} THEN (a.t = "bool" /\ a.v /\ b.v = 1)
                                              \/ (b.t = "bool" /\ b.v /\ a.v = 1)
    ELSE IF a.t # b.t THEN FALSE
    ELSE IF a.t \in {"list", "tuple"}
         THEN Len(a.v) = Len(b.v) /\ \A i \in 1..Len(a.v) : DeepEq(a.v[i], b.v[i])
    ELSE IF a.t = "dict"
         THEN /\ Len(a.v) = Len(b.v)
              /\ \A i \in 1..Len(a.v) : \E j \in 1..Len(b.v) :
                    a.v[i][1] = b.v[j][1] /\ DeepEq(a.v[i][2], b.v[j][2])
    ELSE a = b

\* a structure of text-keyed mappings, lists, text, numbers that are not NaN,
\* booleans and null
RECURSIVE IsJsonShaped(_)
IsJsonShaped(d) ==
    CASE d.t \in {"none", "bool", "int", "str"} -> TRUE
      [] d.t = "float" -> d # PyNaN
      [] d.t = "tuple" -> FALSE
      [] d.t = "list" -> \A i \in 1..Len(d.v) : IsJsonShaped(d.v[i])
      [] d.t = "dict" -> \A i \in 1..Len(d.v) : d.v[i][1].t = "str" /\ IsJsonShaped(d.v[i][2])

\* C5 as stated: write_json(p, d) followed by read_json(p) returns a structure
\* deeply equal to d, for every structure d of mappings, sequences, text,
\* numbers, booleans and null.
C5_RoundTripAny ==
    doc.pc = "read" => DeepEq(doc.result, doc.data)

\* C5: the round trip returns a structure deeply equal to d for every d built
\* from mappings with text keys, lists, text, numbers other than NaN, booleans
\* and null.
C5_RoundTrip ==
    (doc.pc = "read" /\ IsJsonShaped(doc.data)) => DeepEq(doc.result, doc.data)

\* a mapping holding a list has made the round trip
C5_Witness ==
    /\ doc.pc = "read"
    /\ doc.data = PyDict(<<<<PyStr("a"), PyList(<<PyInt(1)>>)>>>>)
    /\ doc.result = doc.data

GroupSums == {"group_by_sum", "aggregate_sum_by_key", "df_groupby_sum"}

\* the sum field holds a number wherever it is present
Summable == \A i \in 1..InLen : IsInt(GetOr(InRec(i), op.sum_field, PyInt(0)))

C7_SafeNeverRaises ==
    (etl.pc # "off" /\ etl.caller = "safe_etl_execution") =>
        /\ etl.pc # "raised"
        /\ etl.pc # "returned" => ENABLED NextEtl
        /\ etl.pc = "returned" =>
            IF etl.exc = NoExc THEN logger.records = <<>>
            ELSE /\ logger.records = <<[level |-> "ERROR", exc |-> etl.exc.type]>>
                 /\ etl.stages = SubSeq(Stages, 1, Len(etl.stages))
                 /\ etl.stages[Len(etl.stages)] = etl.exc.stage

\* the load stage failed part way through the file and the call returned
C7_Witness ==
    /\ etl.pc = "returned" /\ etl.caller = "safe_etl_execution"
    /\ etl.exc = [type |-> "ValueError", stage |-> "load"]
    /\ etl.outfile.kind = "csv" /\ Len(etl.outfile.rows) = 1
    /\ Len(logger.records) = 1

\* C8: every relational operator is pure: a call leaves the input tables and
\* every record in them as they were.
C8_Pure ==
    [][pc = "start" => \A r \in DOMAIN heap : heap'[r] = heap[r]]_vars

\* what holds of the code: every operator but rank_records is pure
C8_PureButRank ==
    [][(pc = "start" /\ op'.name # "rank_records")
          => \A r \in DOMAIN heap : heap'[r] = heap[r]]_vars

\* the log holds the record count before and after stage s
CountsLogged(s) ==
    \E i, j \in 1..Len(logger.records) :
        /\ i < j
        /\ logger.records[i].level = "INFO" /\ logger.records[i].stage = s /\ logger.records[i].at = "before"
        /\ logger.records[j].level = "INFO" /\ logger.records[j].stage = s /\ logger.records[j].at = "after"

\* each stage run had the result of the one before it
StagesInOrder ==
    /\ etl.stages = SubSeq(Stages, 1, Len(etl.stages))
    /\ Len(etl.stages) >= 2 => etl.data # 0
    /\ Len(etl.stages) >= 3 => etl.cleaned # 0
    /\ Len(etl.stages) >= 4 => etl.transformed # 0
    /\ (etl.pc = "returned" /\ etl.exc = NoExc) => etl.stages = Stages

\* C9 as stated: run_etl runs extract, clean, derive-column, load in this order,
\* each after the one before it completed, and logs the record count before and
\* after each stage.
C9_OrderAndCounts ==
    etl.pc # "off" =>
        /\ StagesInOrder
        /\ (etl.pc = "returned" /\ etl.exc = NoExc) =>
                \A n \in 1..Len(Stages) : CountsLogged(Stages[n])

\* C9: run_etl runs extract, clean, derive-column, load in this order, each
\* after the one before it completed, and logs no record count: it writes
\* nothing to the log (the one entry a run can leave is the error logged by
\* safe_etl_execution).
C9_OrderNoCounts ==
    etl.pc # "off" =>
        /\ StagesInOrder
        /\ \A i \in 1..Len(logger.records) : logger.records[i].level = "ERROR"
        /\ etl.caller = "run_etl" => logger.records = <<>>

\* a run of run_etl through all four stages that wrote the output file
C9_Witness ==
    /\ etl.pc = "returned" /\ etl.caller = "run_etl" /\ etl.exc = NoExc
    /\ etl.stages = Stages
    /\ etl.outfile.kind = "csv" /\ Len(etl.outfile.rows) = 2
    /\ logger.records = <<>>

\* the result of a left join, record by record
LeftJoinIs ==
    /\ Returned(out)
    /\ Len(OutList) = InLen
    /\ \A i \in 1..InLen :
        IF Matched(i, op.field)
        THEN \E j \in 1..RightLen :
                /\ RightRec(j)[op.field] = Get(InRec(i), op.field)
                /\ IsMerged(OutRec(i), InRec(i), RightRec(j))
        ELSE OutRec(i) = InRec(i)

\* C10 as stated: left_join(L, R, k) returns one record per record of L, in L's
\* order: the record merged with the fields of a record of R that has its value
\* of k, or the record's own fields and values alone when R has none.
C10_LeftJoinAlways ==
    Done("left_join") => LeftJoinIs

\* C10: the same, when every record of R has key k
C10_LeftJoin ==
    (Done("left_join") /\ RightAllHave(op.field)) => LeftJoinIs

\* a left table of one matched and one unmatched record, the match adding a field
C10_Witness ==
    /\ Done("left_join") /\ RightAllHave(op.field) /\ Returned(out)
    /\ InLen = 2 /\ RightLen = 1
    /\ Matched(1, op.field) /\ ~Matched(2, op.field)
    /\ DOMAIN RightRec(1) \ DOMAIN InRec(1) # {}
    /\ OutRec(2) = InRec(2)


\* the last record of R that carries the value of k of the left record at i
LastRight(i, k) ==
    CHOOSE j \in 1..RightLen :
        /\ k \in DOMAIN RightRec(j) /\ RightRec(j)[k] = Get(InRec(i), k)
        /\ \A q \in (j + 1)..RightLen :
            ~(k \in DOMAIN RightRec(q) /\ RightRec(q)[k] = Get(InRec(i), k))

\* C11: in inner_join (and df_join), when several records of R share a value
\* of k the last of them in R is the one matched: the result holds, in L's
\* order, one record for each matched record of L and no more, and that record
\* carries the fields of both with the value of the last matching R record
\* wherever both have the field.
C11_LastWins ==
    (pc = "done" /\ op.name \in {"inner_join", "df_join"} /\ Returned(out)) =>
        LET hit == {i \in 1..InLen : Matched(i, op.field)}
        IN  /\ Len(OutList) = Cardinality(hit)
            /\ Len(OutList) <= InLen
            /\ \E g \in [1..Len(OutList) -> hit] :
                /\ \A a, b \in 1..Len(OutList) : a < b => g[a] < g[b]
                /\ \A a \in 1..Len(OutList) :
                    LET l == InRec(g[a])
                        r == RightRec(LastRight(g[a], op.field))
                    IN  /\ IsMerged(OutRec(a), l, r)
                        /\ \A f \in DOMAIN l \cap DOMAIN r : OutRec(a)[f] = r[f]

\* two records of R share the key value and differ at a field the left record
\* holds too: the result carries the value of the second
C11_Witness ==
    /\ Done("inner_join") /\ Returned(out)
    /\ InLen = 1 /\ RightLen = 2 /\ Len(OutList) = 1
    /\ op.field = "id"
    /\ Get(RightRec(1), "id") = Get(RightRec(2), "id")
    /\ "amount" \in DOMAIN InRec(1) /\ "amount" \in DOMAIN RightRec(1)
    /\ "amount" \in DOMAIN RightRec(2)
    /\ RightRec(1)["amount"] # RightRec(2)["amount"]
    /\ InRec(1)["amount"] # RightRec(2)["amount"]
    /\ OutRec(1)["amount"] = RightRec(2)["amount"]


\* C12: fill_missing_fields(record, defaults) gives the record (the same
\* object) every key of defaults it lacked, with the default value; a key the
\* record had keeps its value, null included, a key not in defaults is left
\* alone, defaults is unchanged; and a second call with the same defaults
\* leaves the record as the first call left it.
C12_FillMissing ==
    op.name = "fill_missing_fields" =>
        /\ Returned(out) /\ out.val = L
        /\ heap[R] = op.defaults
        /\ DOMAIN heap[L] = DOMAIN op.before \cup DOMAIN op.defaults
        /\ \A k \in DOMAIN op.before : heap[L][k] = op.before[k]
        /\ \A k \in DOMAIN op.defaults \ DOMAIN op.before : heap[L][k] = op.defaults[k]
        /\ pc = "again" => heap[L] = op.before

\* a record that lacked id and held null at amount, filled twice from defaults
\* naming both: id was set, the null was kept
C12_Witness ==
    /\ pc = "again" /\ op.name = "fill_missing_fields"
    /\ DOMAIN op.first = {"amount"} /\ op.first["amount"] = PyNone
    /\ DOMAIN op.defaults = {"id", "amount"}
    /\ op.defaults["amount"] = PyInt(2) /\ op.defaults["id"] = PyInt(1)
    /\ heap[L] = [id |-> PyInt(1), amount |-> PyNone]


GreaterThanFilters == {"where_greater_than", "df_filter", "filter_records_by_threshold"}

\* every value the input records hold at field f is a number
NumbersAt(f) == \A i \in 1..InLen : f \in DOMAIN InRec(i) => IsInt(InRec(i)[f])

SomeLackField ==
    /\ \E i \in 1..InLen : op.field \notin DOMAIN InRec(i)
    /\ \A i \in 1..InLen : op.field \in DOMAIN InRec(i) => IsInt(InRec(i)[op.field])

\* C14: order_by (and df_order_by) on a table in which some records lack the
\* sort field and the others hold numbers returns without error, the records
\* that lack the field first when ascending and last when descending.
C14_MissingSortsLow ==
    (pc = "done" /\ op.name \in {"order_by", "df_order_by"} /\ SomeLackField) =>
        /\ Returned(out)
        /\ Len(OutList) = InLen
        /\ \A a, b \in 1..Len(OutList) :
            (op.field \notin DOMAIN OutRec(a) /\ op.field \in DOMAIN OutRec(b))
                => IF op.ascending THEN a < b ELSE a > b

\* what holds of the code: such a call returns only when the table has a single
\* record, and raises TypeError when it has two or more
C14_RaisesOnMissing ==
    (pc = "done" /\ op.name \in {"order_by", "df_order_by"} /\ SomeLackField) =>
        IF InLen >= 2 THEN out.kind = "raise" /\ out.exc = "TypeError"
        ELSE Returned(out) /\ OutList = heap[L]


Validators ==
    {"is_numeric", "validate_date_format", "validate_email", "validate_schema",
     "validate_mandatory_fields", "remove_invalid_ids"}

\* C15: no validator raises, whatever the type of the value it is given: the
\* call returns a boolean or a table.
C15_ValidatorsNeverRaise ==
    (pc = "done" /\ op.name \in Validators) => Returned(out)

\* what holds of the code: a validator raises exactly when it is
\* validate_date_format or validate_email and its argument is not text (the
\* error is TypeError); every other call returns a boolean, or the table of the
\* records whose id is an integer
C15_RaisesOnNonText ==
    (pc = "done" /\ op.name \in Validators) =>
        IF op.name \in {"validate_date_format", "validate_email"} /\ op.value.t # "str"
        THEN out.kind = "raise" /\ out.exc = "TypeError"
        ELSE /\ Returned(out)
             /\ IF op.name = "remove_invalid_ids"
                THEN IsSelection(OutList, heap[L],
                        {i \in 1..InLen : Get(InRec(i), op.field).t = "int"})
                ELSE out.val \in {PyBool(TRUE), PyBool(FALSE)}


\* the sentinels of the aggregates other than summary_statistics
SentinelsReturned ==
    /\ (Done("safe_division") /\ op.b = 0) =>
            /\ Returned(out) /\ out.val = PyNone
            /\ logger.records = <<[level |-> "ERROR",
                                   msg |-> "Division by zero error occurred"]>>
    /\ (Done("calculate_average") /\ InLen = 0) =>
            Returned(out) /\ out.val = PyInt(0)
    /\ (Done("aggregate_metrics") /\ InLen = 0) =>
            Returned(out) /\ OutDict = EmptyDict
    /\ (Done("normalize_values") /\ InLen >= 1
            /\ \A i \in 1..InLen : heap[L][i] = heap[L][1]) =>
            /\ Returned(out) /\ Len(OutList) = InLen
            /\ \A i \in 1..InLen : OutList[i] = PyInt(0)

\* C16: every aggregate returns a sentinel where it would divide by zero:
\* safe_division(a, 0) returns null, calculate_average([]) returns 0,
\* summary_statistics([]) returns a result whose average is 0,
\* aggregate_metrics([]) returns an empty mapping, normalize_values of equal
\* values returns zeros.
C16_Sentinels ==
    /\ SentinelsReturned
    /\ (Done("summary_statistics") /\ InLen = 0) =>
            Returned(out) /\ OutDict["average"] = PyInt(0)

\* what holds of the code: the sentinels of the four other aggregates, while
\* summary_statistics of an empty list raises ValueError
C16_SentinelsButSummary ==
    /\ SentinelsReturned
    /\ (Done("summary_statistics") /\ InLen = 0) =>
            out.kind = "raise" /\ out.exc = "ValueError"


\* C17 as stated: once logging is configured, no step of the process changes
\* the level of the root logger.
C17_LevelWrittenOnce ==
    [][logger.handlers => logger'.level = logger.level]_vars

\* C17: once logging is configured, the level of the root logger is changed by
\* set_logging_level alone, which sets DEBUG for "DEV" and INFO for any other
\* environment; every other operation, and the import of the second module,
\* leaves the level as it was.
C17_OnlySetLoggingLevel ==
    [][logger.handlers =>
          IF op'.calls = op.calls + 1 /\ op'.name = "set_logging_level"
          THEN logger'.level = IF op'.env = "DEV" THEN "DEBUG" ELSE "INFO"
          ELSE logger'.level = logger.level]_vars

\* the level was set to DEBUG, the second module was imported and an operation
\* logged since, and the level is still DEBUG
C17_Witness ==
    /\ pc = "process" /\ op.imported = Modules
    /\ op.calls = 3 /\ op.name = "log_step"
    /\ logger.level = "DEBUG"
    /\ Len(logger.records) = 2
    /\ logger.records[1].msg = "Executing step"


\* every input record holds a number at field f
AllHaveNumber(f) == \A i \in 1..InLen : f \in DOMAIN InRec(i) /\ IsInt(InRec(i)[f])

C19_RunningTotal ==
    Done("running_total") =>
        /\ Returned(out)
        /\ Len(OutList) = InLen
        /\ \A i \in 1..InLen : OutList[i] = PyInt(PySum(SubSeq(heap[L], 1, i), 1))
        /\ (\A i \in 1..InLen : heap[L][i].v >= 0) =>
                \A i \in 1..(InLen - 1) : OutList[i].v <= OutList[i + 1].v

\* the running total of 1, 0, 2: it stays at 1, then rises to 3
C19_Witness ==
    /\ Done("running_total") /\ Returned(out)
    /\ heap[L] = <<PyInt(1), PyInt(0), PyInt(2)>>
    /\ OutList = <<PyInt(1), PyInt(1), PyInt(3)>>

\* C20: bucketize_values(V, b) with b > 0 puts every value v, negative ones
\* included, in the bucket whose key is the multiple of b with
\* key <= v < key + b; a bucket holds exactly the values of its range, in
\* input order, no bucket is empty, and the bucket sizes add up to len(V).
C20_Buckets ==
    (Done("bucketize_values") /\ op.bucket_size > 0) =>
        /\ Returned(out)
        /\ \A i \in 1..InLen :
            \E key \in DOMAIN OutDict :
                key.v <= heap[L][i].v /\ heap[L][i].v < key.v + op.bucket_size
        /\ \A key \in DOMAIN OutDict :
            /\ key.v % op.bucket_size = 0
            /\ OutDict[key] # <<>>
            /\ OutDict[key] =
                 SelectSeq(heap[L],
                     LAMBDA x : key.v <= x.v /\ x.v < key.v + op.bucket_size)
        /\ Cardinality({<<key, j>> \in (DOMAIN OutDict) \X (1..InLen) :
                            j <= Len(OutDict[key])}) = InLen

\* -1 and -2 share the bucket -2 of width 2, in input order; 1 is in bucket 0
C20_Witness ==
    /\ Done("bucketize_values") /\ Returned(out)
    /\ op.bucket_size = 2
    /\ heap[L] = <<PyInt(-1), PyInt(1), PyInt(-2)>>
    /\ DOMAIN OutDict = {PyInt(-2), PyInt(0)}
    /\ OutDict[PyInt(-2)] = <<PyInt(-1), PyInt(-2)>>
    /\ OutDict[PyInt(0)] = <<PyInt(1)>>


\* the leaf values of a mapping, at every depth
RECURSIVE LeafCount(_)
LeafCount(d) ==
    IF d.t # "dict" THEN 1
    ELSE LET RECURSIVE upto(_)
             upto(i) == IF i = 0 THEN 0 ELSE LeafCount(d.v[i][2]) + upto(i - 1)
         IN  upto(Len(d.v))

\* no value of the mapping is itself a mapping
SingleLevel(d) == \A i \in 1..Len(d.v) : d.v[i][2].t # "dict"

\* the mapping nests at most one level: the values of its values are leaves
TwoLevels(d) == \A i \in 1..Len(d.v) : d.v[i][2].t = "dict" => SingleLevel(d.v[i][2])

\* C21: flatten_json(d) is a single-level mapping whatever the depth of d: no
\* value of the result is a mapping, and every leaf value of d is in the
\* result under a key of its own.
C21_SingleLevel ==
    (pc = "flatten" /\ doc.pc = "flat") =>
        /\ SingleLevel(doc.result)
        /\ Len(doc.result.v) = LeafCount(doc.data)

\* what holds of the code: one level is spread, so a mapping that nests at most
\* one level gives a single-level result, of no more entries than it has leaves
\* (fewer when two joined keys collide)
C21_OneLevelSpread ==
    (pc = "flatten" /\ doc.pc = "flat" /\ TwoLevels(doc.data)) =>
        /\ SingleLevel(doc.result)
        /\ Len(doc.result.v) <= LeafCount(doc.data)


\* C22: after c = df_cache(T), whatever df_with_column, df_drop,
\* df_rename_column and df_fill_na do to T, the cache holds the records, fields
\* and values that T held when it was cached.
C22_CacheKeeps ==
    pc = "cached" => Content(heap, R) = op.held

\* what holds of the code: the cache is a second list of the same record
\* objects, so it keeps their number and order and shows every change made to
\* a record of T
C22_CacheFollows ==
    pc = "cached" =>
        /\ R # L
        /\ heap[R] = heap[L]
        /\ Len(heap[R]) = Len(op.held)
        /\ Content(heap, R) = Content(heap, L)


\* the clean stage ran and left no record
CleanedEmpty == etl.pc # "off" /\ etl.cleaned # 0 /\ Len(heap[etl.cleaned]) = 0

\* C23: when the clean stage of run_etl leaves no record, the run fails with
\* IndexError while the arguments of the load are evaluated, before the output
\* file is opened: the file is neither created nor truncated; under
\* safe_etl_execution the failure is logged once and the call returns, and a
\* plain caller of run_etl gets the exception.
C23_EmptyCleanNoWrite ==
    CleanedEmpty =>
        /\ etl.outfile.kind \in {"absent", "old"}
        /\ etl.pc # "return"
        /\ etl.pc \in {"unwind", "returned", "raised"} =>
                etl.exc = [type |-> "IndexError", stage |-> "load"]
        /\ etl.pc \in {"returned", "raised"} =>
                IF etl.caller = "safe_etl_execution"
                THEN /\ etl.pc = "returned"
                     /\ logger.records = <<[level |-> "ERROR", exc |-> "IndexError"]>>
                ELSE etl.pc = "raised" /\ logger.records = <<>>

\* two rows with an empty amount, an output file that existed: the call under
\* safe_etl_execution returned, the error is logged and the old file is intact
C23_Witness ==
    /\ CleanedEmpty
    /\ etl.pc = "returned" /\ etl.caller = "safe_etl_execution"
    /\ etl.input.kind = "csv" /\ Len(etl.input.rows) = 2
    /\ etl.openable
    /\ etl.outfile.kind = "old"
    /\ etl.stages = Stages
    /\ logger.records = <<[level |-> "ERROR", exc |-> "IndexError"]>>

====
